---- MODULE Spec2Model ----
(***************************************************************************)
(* Brightdata proxy rotation: ProxyManager (proxy_manager.py), the Scrapy  *)
(* downloader middleware in front of it (brightdata_proxy.py) and the      *)
(* configuration dataclass it builds sessions from (brightdata_config.py). *)
(*                                                                         *)
(* Every hook and every ProxyManager method is one atomic action: Scrapy   *)
(* runs downloader middlewares on the single reactor thread.  All calls of *)
(* datetime.now() inside one handler read the same clock value `now`.      *)
(*                                                                         *)
(* Two families of specifications share the same actions:                  *)
(*   Spec      the code exactly as declared: BrightdataConfig has no       *)
(*             session_id field, so the constructor call in                *)
(*             _ensure_sessions raises TypeError;                          *)
(*   SpecPool, SpecBlacklist, SpecHooks                                    *)
(*             the same code run against a BrightdataConfig that accepts   *)
(*             the session_id keyword its call site passes, which is the   *)
(*             only way the registry ever holds a session.                 *)
(* The field set of the dataclass is part of the state (config_fields) and *)
(* is fixed by the initial predicate of each specification.                *)
(*                                                                         *)
(* SpecRecords and SpecRace leave the reactor aside and run the methods of *)
(* ProxyManager statement by statement in several threads (workers), the   *)
(* parallel workers the specification of the core asks the shared state to *)
(* be guarded against.                                                     *)
(***************************************************************************)
EXTENDS Integers, Sequences, FiniteSets, TLC

\* ------------------------------------------------------------------ bounds
MaxIds == 2
        \* number of distinct ids _generate_session_id can return
MaxSessions == 1
        \* BRIGHTDATA_MAX_SESSIONS
MaxRetries == 1
        \* BRIGHTDATA_MAX_RETRIES
MaxCalls == 2
        \* process_response calls with one request and response
CodeMaxTicks == 1
HookMaxRecords == 2
PoolMaxTicks == 3
PoolMaxRecords == 2
BlacklistMaxTicks == 1
BlacklistMaxRecords == 12
BlacklistMaxSuccesses == 1
MaxWorkers == 2
        \* threads calling into the manager
WorkerMaxUses == 2
        \* get_proxy calls on one session
EnsureMaxAttempts == 2
MaxHashSeed == 1
        \* generated ids one _ensure_sessions call skips
StatsSessions == 3
RotationSessions == 2
RotationMaxRecords == 2

\* ------------------------------------------------------- program constants
MaxRequests == 100
MaxDuration == 3600
DaySeconds == 86400
BlacklistDuration == 1800
HealthyRate == 80
HealthyWindow == 300
NewProxyRequests == 5
BlacklistRate == 50
BlacklistMinRequests == 10
NumUserAgents == 5

\* The clock is read at multiples of the blacklist duration.
Tick == BlacklistDuration

None == -1

\* the default process_exception gives a missing proxy_session_id: 'unknown'
Unknown == 0

\* The fields the dataclass declares, and the keywords the call in
\* _ensure_sessions passes to its constructor.
BrightdataConfigFields ==
    {"username", "password", "endpoint", "port", "zone", "country"}

SessionConfigKeywords ==
    {"username", "password", "endpoint", "port", "zone", "country", "session_id"}

VARIABLES
    now,                  \* datetime.now() / time.time(), in seconds
    config_fields,        \* fields of the BrightdataConfig dataclass
    use_proxies,          \* the USE_PROXIES environment variable is "true"
    has_config,           \* the config manager holds a valid default config
    enabled,              \* BrightdataProxyMiddleware.enabled
    max_sessions,         \* ProxyManager.max_sessions
    max_retries,          \* BrightdataProxyMiddleware.max_retries
    sessions,             \* ProxyManager.sessions: insertion-ordered dict
    session_order,        \* ProxyManager.session_order
    metrics,              \* ProxyManager.metrics: defaultdict(ProxyMetrics)
    blacklisted_sessions, \* ProxyManager.blacklisted_sessions: id -> datetime
    last_blacklisted,     \* history: id -> time of its latest blacklisting
    request,              \* the request the middleware is handed
    workers,              \* threads inside the methods of the manager
    hash_seed,            \* the seed of str hashes in this process
    session_profiles,     \* SessionManager.session_profiles / session_created_at
    returned              \* history: call -> what it returned, and the ids
                          \* whose profile was derived again

vars ==
    <<now, config_fields, use_proxies, has_config, enabled, max_sessions,
      max_retries, sessions, session_order, metrics, blacklisted_sessions,
      last_blacklisted, request, workers, hash_seed, session_profiles,
      returned>>

settings ==
    <<config_fields, use_proxies, has_config, enabled, max_sessions, max_retries>>

session_utils == <<hash_seed, session_profiles, returned>>

\* The ids _generate_session_id can return: a pool never runs out of them.
SessionIds == 1..(IF max_sessions > MaxIds THEN max_sessions ELSE MaxIds)

\* --------------------------------------------------------- dict and list
Keys(d) == {d[i].session_id : i \in DOMAIN d}

Values(d) == {d[i] : i \in DOMAIN d}

Lookup(d, sid) == CHOOSE s \in Values(d) : s.session_id = sid

\* d[key] = value: an existing key keeps its position
DictSet(d, s) ==
    IF s.session_id \in Keys(d)
    THEN [i \in DOMAIN d |-> IF d[i].session_id = s.session_id THEN s ELSE d[i]]
    ELSE Append(d, s)

DictDel(d, sid) == SelectSeq(d, LAMBDA s : s.session_id # sid)

\* list.remove(x): removes the first occurrence only
ListRemove(l, x) ==
    IF \E i \in DOMAIN l : l[i] = x
    THEN LET k == CHOOSE i \in DOMAIN l : l[i] = x /\ \A j \in 1..(i - 1) : l[j] # x
         IN  [i \in 1..(Len(l) - 1) |-> IF i < k THEN l[i] ELSE l[i + 1]]
    ELSE l

\* ------------------------------------------------------------ ProxyMetrics
ProxyMetrics ==
    [requests_sent |-> 0, successful_requests |-> 0, failed_requests |-> 0,
     blocked_requests |-> 0, timeout_requests |-> 0, last_success |-> None]

\* success_rate < rate, in exact arithmetic (the float expression
\* (successful / sent) * 100 compares the same way against 80 and 50)
SuccessRateBelow(m, rate) ==
    IF m.requests_sent = 0
    THEN 100 < rate
    ELSE m.successful_requests * 100 < rate * m.requests_sent

is_healthy(m, t) ==
    IF SuccessRateBelow(m, HealthyRate) THEN FALSE
    ELSE IF m.last_success # None THEN t - m.last_success < HealthyWindow
    ELSE m.requests_sent < NewProxyRequests

\* ------------------------------------------------------------ ProxySession
\* timedelta.seconds: the seconds component, days are dropped
TimedeltaSeconds(d) == d % DaySeconds

\* faulty variant: a session expires after half of max_duration
is_expired_early(s, t) ==
    \/ 2 * TimedeltaSeconds(t - s.created_at) >= MaxDuration
    \/ s.requests_count >= MaxRequests

is_expired(s, t) ==
    \/ TimedeltaSeconds(t - s.created_at) > MaxDuration
    \/ s.requests_count >= MaxRequests

\* faulty variant: a selection counts twice
use_twice(s, t) == [s EXCEPT !.last_used = t, !.requests_count = @ + 2]

use(s, t) == [s EXCEPT !.last_used = t, !.requests_count = @ + 1]

ActiveSessions(d, t) == SelectSeq(d, LAMBDA s : ~is_expired(s, t))

\* ------------------------------------------------------------ ProxyManager
\* The mutable state of the manager, as the value its methods transform.
Manager ==
    [sessions |-> sessions, session_order |-> session_order,
     metrics |-> metrics, blacklisted_sessions |-> blacklisted_sessions]

Put(f, k, v) == [x \in DOMAIN f \cup {k} |-> IF x = k THEN v ELSE f[x]]

Drop(f, ks) == [x \in DOMAIN f \ ks |-> f[x]]

is_enabled == use_proxies /\ has_config

\* faulty variant: the id is stamped but the session stays in the registry
blacklist_keeping_session(M, sid, t) ==
    [M EXCEPT !.blacklisted_sessions = Put(@, sid, t)]

blacklist_session(M, sid, t) ==
    [M EXCEPT !.blacklisted_sessions = Put(@, sid, t),
              !.sessions = DictDel(@, sid),
              !.session_order = ListRemove(@, sid)]

\* faulty variant: a success stamps last_success and is not counted as sent
record_success_uncounted(M, sid, t) ==
    IF sid \in DOMAIN M.metrics
    THEN [M EXCEPT !.metrics[sid] =
            [@ EXCEPT !.successful_requests = @ + 1, !.last_success = t]]
    ELSE M

record_success(M, sid, t) ==
    IF sid \in DOMAIN M.metrics
    THEN [M EXCEPT !.metrics[sid] =
            [@ EXCEPT !.requests_sent = @ + 1,
                      !.successful_requests = @ + 1,
                      !.last_success = t]]
    ELSE M

\* faulty variant: the threshold is met at the tenth request already
ShouldBlacklistFromTen(m) ==
    SuccessRateBelow(m, BlacklistRate) /\ m.requests_sent >= BlacklistMinRequests

ShouldBlacklist(m) ==
    SuccessRateBelow(m, BlacklistRate) /\ m.requests_sent > BlacklistMinRequests

\* faulty variant: a blocked or timed-out request counts under its kind only
FailureMetricsByKind(m, error_type) ==
    [m EXCEPT !.requests_sent = @ + 1,
              !.failed_requests =
                  IF error_type \in {"blocked", "timeout"} THEN @ ELSE @ + 1,
              !.blocked_requests = IF error_type = "blocked" THEN @ + 1 ELSE @,
              !.timeout_requests = IF error_type = "timeout" THEN @ + 1 ELSE @]

FailureMetrics(m, error_type) ==
    [m EXCEPT !.requests_sent = @ + 1,
              !.failed_requests = @ + 1,
              !.blocked_requests = IF error_type = "blocked" THEN @ + 1 ELSE @,
              !.timeout_requests = IF error_type = "timeout" THEN @ + 1 ELSE @]

\* faulty variant: an unknown id gets a zero-initialised entry
record_failure_creating(M, sid, error_type, t) ==
    LET m == FailureMetrics(IF sid \in DOMAIN M.metrics THEN M.metrics[sid]
                            ELSE ProxyMetrics, error_type)
        M1 == [M EXCEPT !.metrics = Put(@, sid, m)]
    IN  IF ShouldBlacklist(m) THEN blacklist_session(M1, sid, t) ELSE M1

record_failure(M, sid, error_type, t) ==
    IF sid \in DOMAIN M.metrics
    THEN LET m == FailureMetrics(M.metrics[sid], error_type)
             M1 == [M EXCEPT !.metrics[sid] = m]
         IN  IF ShouldBlacklist(m) THEN blacklist_session(M1, sid, t) ELSE M1
    ELSE M

RECURSIVE RemoveAll(_, _)
RemoveAll(l, ids) ==
    IF ids = <<>> THEN l ELSE RemoveAll(ListRemove(l, Head(ids)), Tail(ids))

ExpiredIds(d, t) ==
    LET e == SelectSeq(d, LAMBDA s : is_expired(s, t))
    IN  [i \in DOMAIN e |-> e[i].session_id]

BlacklistEntryExpired(at, t) == t - at > BlacklistDuration

\* faulty variant: the metrics of an id go with its blacklist entry
cleanup_dropping_metrics(M, t) ==
    LET old == {sid \in DOMAIN M.blacklisted_sessions :
                  BlacklistEntryExpired(M.blacklisted_sessions[sid], t)}
    IN  [M EXCEPT
           !.sessions = ActiveSessions(@, t),
           !.session_order = RemoveAll(@, ExpiredIds(M.sessions, t)),
           !.blacklisted_sessions = Drop(@, old),
           !.metrics = Drop(@, old)]

\* faulty variant: the blacklist is never cleaned
cleanup_keeping_blacklist(M, t) ==
    [M EXCEPT
       !.sessions = ActiveSessions(@, t),
       !.session_order = RemoveAll(@, ExpiredIds(M.sessions, t))]

cleanup_expired(M, t) ==
    [M EXCEPT
       !.sessions = ActiveSessions(@, t),
       !.session_order = RemoveAll(@, ExpiredIds(M.sessions, t)),
       !.blacklisted_sessions =
           Drop(@, {sid \in DOMAIN @ : BlacklistEntryExpired(@[sid], t)})]

\* BrightdataConfig(username=..., ..., session_id=session_id): the generated
\* dataclass __init__ raises TypeError on a keyword that is not a field.
ConstructorRaises == ~(SessionConfigKeywords \subseteq config_fields)

ProxySession(sid, t) ==
    [session_id |-> sid, created_at |-> t, last_used |-> t, requests_count |-> 0]

\* The ids the loop of _ensure_sessions goes on with: a generated id found in
\* the blacklist is skipped (continue) and another one is generated.
\* faulty variant: the loop does not look at the blacklist
AcceptedIdsAny(M) == SessionIds

AcceptedIds(M) == SessionIds \ DOMAIN M.blacklisted_sessions

\* faulty variant: the loop does not count the sessions it has
MissingAll(M, t) == IF has_config THEN max_sessions ELSE 0

\* How many sessions the loop creates.
Missing(M, t) ==
    LET active_count == Len(ActiveSessions(M.sessions, t))
    IN  IF has_config /\ active_count < max_sessions
        THEN max_sessions - active_count ELSE 0

RECURSIVE CreateSessions(_, _, _)
CreateSessions(M, gen, t) ==
    IF gen = <<>> THEN M
    ELSE CreateSessions(
           [M EXCEPT !.sessions = DictSet(@, ProxySession(Head(gen), t)),
                     !.session_order = Append(@, Head(gen))],
           Tail(gen), t)

\* gen: the accepted ids _generate_session_id returns, in order
ensure_sessions(M, gen, t) ==
    IF Missing(M, t) = 0 THEN [m |-> M, raised |-> FALSE]
    ELSE IF ConstructorRaises THEN [m |-> M, raised |-> TRUE]
    ELSE [m |-> CreateSessions(M, gen, t), raised |-> FALSE]

\* ------------------------------------------------------------ ProxyRotator
\* metrics[session_id] on the defaultdict creates the missing entry
Touch(mt, ids) ==
    [x \in DOMAIN mt \cup ids |-> IF x \in DOMAIN mt THEN mt[x] ELSE ProxyMetrics]

\* min(proxy_sessions, key=requests_count): the first of the smallest
LeastUsed(l) ==
    LET k == CHOOSE i \in DOMAIN l :
               /\ \A j \in DOMAIN l : l[i].requests_count <= l[j].requests_count
               /\ \A j \in 1..(i - 1) : l[j].requests_count > l[i].requests_count
    IN  l[k].session_id

\* success_weight * usage_weight > 0
PositiveWeight(m) == m.requests_sent = 0 \/ m.successful_requests > 0

\* The sessions random.uniform can make _weighted_select return.
weighted_select(l, mt) ==
    IF \E i \in DOMAIN l : PositiveWeight(mt[l[i].session_id])
    THEN {l[i].session_id : i \in {j \in DOMAIN l : PositiveWeight(mt[l[j].session_id])}}
    ELSE {l[1].session_id}

\* faulty variant: the rotator goes by usage alone
select_least_used(l, mt, t) == {LeastUsed(l)}

\* The sessions select_next can return for a non-empty list, under the
\* "weighted" strategy ProxyManager constructs its rotator with.
select_next(l, mt, t) ==
    LET healthy_sessions ==
            SelectSeq(l, LAMBDA s : ~is_expired(s, t) /\ is_healthy(mt[s.session_id], t))
    IN  IF healthy_sessions = <<>> THEN {LeastUsed(l)}
        ELSE weighted_select(healthy_sessions, mt)

\* ---------------------------------------------------- ProxyManager.get_proxy
NoSession == ProxySession(None, None)

\* The manager after _cleanup_expired and _ensure_sessions, or the TypeError.
Prepared(M, gen, t) == ensure_sessions(cleanup_expired(M, t), gen, t)

\* The choices a get_proxy call has: which ids are generated, which session
\* the rotator returns (None when the call returns before selecting).
GenChoices(M, t) ==
    LET M1 == cleanup_expired(M, t)
    IN  IF ~is_enabled \/ ConstructorRaises THEN {<<>>}
        ELSE [1..Missing(M1, t) -> AcceptedIds(M1)]

PickChoices(M, gen, t) ==
    LET P == Prepared(M, gen, t)
        active_sessions == ActiveSessions(P.m.sessions, t)
    IN  IF ~is_enabled \/ P.raised \/ active_sessions = <<>> THEN {None}
        ELSE select_next(active_sessions,
                         Touch(P.m.metrics, Keys(active_sessions)), t)

\* out: "None", "TypeError" or "proxy"; session: the session handed out
get_proxy(M, gen, pick, t) ==
    IF ~is_enabled THEN [m |-> M, out |-> "None", session |-> NoSession]
    ELSE LET P == Prepared(M, gen, t)
             active_sessions == ActiveSessions(P.m.sessions, t)
         IN  IF P.raised
             THEN [m |-> P.m, out |-> "TypeError", session |-> NoSession]
             ELSE IF active_sessions = <<>>
             THEN [m |-> P.m, out |-> "None", session |-> NoSession]
             ELSE LET selected_session == use(Lookup(active_sessions, pick), t)
                  IN  [m |-> [P.m EXCEPT
                                !.metrics = Touch(@, Keys(active_sessions)),
                                !.sessions = DictSet(@, selected_session)],
                       out |-> "proxy", session |-> selected_session]

\* -------------------------------------------------- ProxyManager.get_stats
RECURSIVE Sum(_, _)
Sum(f, S) ==
    IF S = {} THEN 0
    ELSE LET x == CHOOSE x \in S : TRUE IN f[x] + Sum(f, S \ {x})

\* _generate_session_id returns "scraper-" followed by 16 hex digits, and the
\* ids of the model stand for the digits: session_id[:8] is the prefix.
SessionIdPrefix == "scraper-"

ShortId(sid) == SessionIdPrefix

\* round(successful / total * 100, 2), in hundredths of a percent
overall_success_rate(total_successful, total_requests) ==
    IF total_requests > 0
    THEN ((total_successful * 100000) \div total_requests + 5) \div 10
    ELSE 0

get_stats(M, t) ==
    LET active_sessions == ActiveSessions(M.sessions, t)
        total(field) ==
            Sum([sid \in DOMAIN M.metrics |-> M.metrics[sid][field]],
                DOMAIN M.metrics)
    IN  [active_sessions |-> Len(active_sessions),
         total_sessions |-> Len(M.sessions),
         blacklisted_sessions |-> Cardinality(DOMAIN M.blacklisted_sessions),
         total_requests |-> total("requests_sent"),
         successful_requests |-> total("successful_requests"),
         failed_requests |-> total("failed_requests"),
         overall_success_rate |->
             overall_success_rate(total("successful_requests"),
                                  total("requests_sent")),
         session_details |->
             [i \in DOMAIN active_sessions |->
                [id |-> ShortId(active_sessions[i].session_id),
                 requests |-> active_sessions[i].requests_count]]]

\* ------------------------------------------------ BrightdataProxyMiddleware
\* The request the engine is passing through the middleware.  Requests
\* still with the downloader while another one is handled show up again as
\* requests carrying the meta they were given (Carried below).
\* A request: the meta keys and the header the middleware reads and writes
\* (None: key absent), its url reduced to whether it holds a skip pattern,
\* and where it stands: st is "free" (no request), "new" (before
\* process_request), "sent" (with the downloader), "done" (a hook returned
\* the response or None for good) or "raised" (a hook raised).  hook, status,
\* exception and ret record the last hook call made on it; attached tells
\* that process_request gave it its session; prev_sid and chain record, on a
\* retry request, the session of the failed attempt and the number of retry
\* requests emitted so far for the original request; calls counts the
\* process_response calls made with this request.
Request ==
    [st |-> "free", url_skip |-> FALSE, skip_brightdata_proxy |-> FALSE,
     proxy |-> FALSE, proxy_session_id |-> None, proxy_created_at |-> None,
     proxy_requests_count |-> None, brightdata_enabled |-> FALSE,
     request_start_time |-> None, brightdata_retry_count |-> 0,
     user_agent |-> None, accept_language |-> None,
     accept_encoding |-> None, accept |-> None,
     hook |-> "none", status |-> None, exception |-> "none", ret |-> "none",
     attached |-> FALSE, prev_sid |-> None, chain |-> 0, calls |-> 0]

CallerAgent == NumUserAgents

\* hash(session_id) % len(self.user_agents); hash is fixed within a process
get_rotated_user_agent(sid) == sid % NumUserAgents

\* faulty variant: the skip flag in meta is not looked at
should_skip_url_only(req) == req.url_skip

should_skip_request(req) == req.url_skip \/ req.skip_brightdata_proxy

is_successful_response(status) ==
    (200 <= status /\ status < 400) \/ status \in {404}

\* faulty variant: a rate limit counts as blocked
classify_429_as_blocked(status) ==
    IF status \in {403, 429} THEN "blocked"
    ELSE IF 500 <= status /\ status < 600 THEN "server_error"
    ELSE "http_error"

classify_response_error(status) ==
    IF status = 403 THEN "blocked"
    ELSE IF status = 429 THEN "rate_limited"
    ELSE IF 500 <= status /\ status < 600 THEN "server_error"
    ELSE "http_error"

\* faulty variant: every exception counts as a timeout
classify_all_as_timeout(exception) == "timeout"

classify_exception_error(exception) ==
    IF exception \in {"TimeoutError"} THEN "timeout"
    ELSE IF exception \in {"DNSLookupError", "ConnectionRefusedError"}
    THEN "connection_error"
    ELSE "unknown_error"

\* faulty variant: status 500 is retried as well
should_retry_any_server_error(status, req) ==
    IF req.brightdata_retry_count >= max_retries THEN FALSE
    ELSE status \in {403, 429, 500, 502, 503, 504}

\* faulty variant: the limit is compared with > for >=
should_retry_exception_past_limit(exception, req) ==
    IF req.brightdata_retry_count > max_retries THEN FALSE
    ELSE exception \in {"TimeoutError", "DNSLookupError", "ConnectionRefusedError"}

should_retry_with_different_proxy(status, req) ==
    IF req.brightdata_retry_count >= max_retries THEN FALSE
    ELSE status \in {403, 429, 502, 503, 504}

should_retry_exception_with_different_proxy(exception, req) ==
    IF req.brightdata_retry_count >= max_retries THEN FALSE
    ELSE exception \in {"TimeoutError", "DNSLookupError", "ConnectionRefusedError"}

retry_with_different_proxy(req) ==
    [req EXCEPT !.brightdata_retry_count = @ + 1,
                !.proxy = FALSE,
                !.proxy_session_id = None,
                !.proxy_created_at = None,
                !.proxy_requests_count = None]

\* Each hook gives the request as it leaves it, the manager as it leaves it,
\* and what it returned: "None", "response", "retry" (req is then the new
\* request) or "TypeError" (it raised).
process_request(req, M, gen, pick, t) ==
    IF ~enabled THEN [req |-> req, m |-> M, ret |-> "None"]
    ELSE IF req.proxy THEN [req |-> req, m |-> M, ret |-> "None"]
    ELSE IF should_skip_request(req) THEN [req |-> req, m |-> M, ret |-> "None"]
    ELSE LET proxy_info == get_proxy(M, gen, pick, t)
         IN  IF proxy_info.out = "TypeError"
             THEN [req |-> req, m |-> proxy_info.m, ret |-> "TypeError"]
             ELSE IF proxy_info.out = "None"
             THEN [req |-> req, m |-> proxy_info.m, ret |-> "None"]
             ELSE [req |->
                     [req EXCEPT
                        !.proxy = TRUE,
                        !.proxy_session_id = proxy_info.session.session_id,
                        !.proxy_created_at = proxy_info.session.created_at,
                        !.proxy_requests_count = proxy_info.session.requests_count,
                        !.brightdata_enabled = TRUE,
                        !.request_start_time = t,
                        !.user_agent =
                            IF @ = None
                            THEN get_rotated_user_agent(proxy_info.session.session_id)
                            ELSE @],
                   m |-> proxy_info.m, ret |-> "None"]

\* session_id[:8] in the log message raises TypeError on a missing id
process_response(req, status, M, t) ==
    IF ~req.brightdata_enabled THEN [req |-> req, m |-> M, ret |-> "response"]
    ELSE LET session_id == req.proxy_session_id
         IN  IF is_successful_response(status)
             THEN [req |-> req, m |-> record_success(M, session_id, t),
                   ret |-> IF session_id = None THEN "TypeError" ELSE "response"]
             ELSE LET error_type == classify_response_error(status)
                      M1 == record_failure(M, session_id, error_type, t)
                  IN  IF session_id = None
                      THEN [req |-> req, m |-> M1, ret |-> "TypeError"]
                      ELSE IF should_retry_with_different_proxy(status, req)
                      THEN [req |-> retry_with_different_proxy(req), m |-> M1,
                            ret |-> "retry"]
                      ELSE [req |-> req, m |-> M1, ret |-> "response"]

\* faulty variant: the brightdata_enabled flag is not looked at
process_exception_unguarded(req, exception, M, t) ==
    LET session_id ==
            IF req.proxy_session_id = None THEN Unknown
            ELSE req.proxy_session_id
        M1 == record_failure(M, session_id,
                             classify_exception_error(exception), t)
    IN  IF should_retry_exception_with_different_proxy(exception, req)
        THEN [req |-> retry_with_different_proxy(req), m |-> M1, ret |-> "retry"]
        ELSE [req |-> req, m |-> M1, ret |-> "None"]

process_exception(req, exception, M, t) ==
    IF ~req.brightdata_enabled THEN [req |-> req, m |-> M, ret |-> "None"]
    ELSE LET session_id ==
                 IF req.proxy_session_id = None THEN Unknown
                 ELSE req.proxy_session_id
             error_type == classify_exception_error(exception)
             M1 == record_failure(M, session_id, error_type, t)
         IN  IF should_retry_exception_with_different_proxy(exception, req)
             THEN [req |-> retry_with_different_proxy(req), m |-> M1,
                   ret |-> "retry"]
             ELSE [req |-> req, m |-> M1, ret |-> "None"]

\* ------------------------------------------------------------ session_utils
\* A version string is the sequence of its dotted numbers, a user agent the
\* parts the f-string puts together.
BrowserProfile(platform, browser_name, browser_version) ==
    [user_agent |-> <<platform, browser_name, browser_version>>,
     accept_language |->
        IF browser_name = "Chrome" THEN "de-DE,de;q=0.9,en;q=0.8"
        ELSE IF browser_name = "Firefox"
        THEN "de-DE,de;q=0.8,en-US;q=0.5,en;q=0.3"
        ELSE "de-DE,de;q=0.9",
     accept_encoding |->
        IF browser_name = "Firefox" THEN "gzip, deflate"
        ELSE "gzip, deflate, br",
     accept |->
        IF browser_name = "Chrome"
        THEN "text/html,application/xhtml+xml,application/xml;q=0.9,image/webp,image/apng,*/*;q=0.8"
        ELSE IF browser_name = "Firefox"
        THEN "text/html,application/xhtml+xml,application/xml;q=0.9,image/webp,*/*;q=0.8"
        ELSE "text/html,application/xhtml+xml,application/xml;q=0.9,*/*;q=0.8",
     platform |-> platform,
     browser_name |-> browser_name,
     browser_version |-> browser_version]

chrome_windows_versions ==
    <<<<120, 0, 0, 0>>, <<119, 0, 0, 0>>, <<118, 0, 0, 0>>, <<117, 0, 0, 0>>>>

firefox_versions == <<<<120, 0>>, <<119, 0>>, <<118, 0>>, <<117, 0>>>>

safari_versions == <<<<17, 1>>, <<16, 6>>, <<16, 5>>>>

\* UserAgentPool._generate_browser_profiles
profiles ==
    [i \in 1..4 |-> BrowserProfile("Windows", "Chrome", chrome_windows_versions[i])]
      \o [i \in 1..4 |-> BrowserProfile("macOS", "Chrome", chrome_windows_versions[i])]
      \o [i \in 1..4 |-> BrowserProfile("Windows", "Firefox", firefox_versions[i])]
      \o [i \in 1..3 |-> BrowserProfile("macOS", "Safari", safari_versions[i])]

\* hash(session_id): a value the string and the seed of the process fix
StrHash(sid) == sid * (2 * hash_seed + 1) + 7 * hash_seed

\* faulty variant: the profile depends on what the cache holds
get_profile_by_cache_size(sid) ==
    profiles[((StrHash(sid) + Cardinality(DOMAIN session_profiles))
                 % Len(profiles)) + 1]

\* the index of a Python list starts at 0
get_profile_for_session(sid) == profiles[(StrHash(sid) % Len(profiles)) + 1]

\* dict.update
Update(d, e) ==
    [k \in DOMAIN d \cup DOMAIN e |-> IF k \in DOMAIN e THEN e[k] ELSE d[k]]

to_headers(profile) ==
    [k \in {"User-Agent", "Accept-Language", "Accept-Encoding", "Accept"} |->
       CASE k = "User-Agent" -> profile.user_agent
         [] k = "Accept-Language" -> profile.accept_language
         [] k = "Accept-Encoding" -> profile.accept_encoding
         [] k = "Accept" -> profile.accept]

AdditionalHeaders ==
    [k \in {"DNT", "Connection", "Upgrade-Insecure-Requests", "Sec-Fetch-Dest",
            "Sec-Fetch-Mode", "Sec-Fetch-Site", "Cache-Control"} |->
       CASE k = "DNT" -> "1"
         [] k = "Connection" -> "keep-alive"
         [] k = "Upgrade-Insecure-Requests" -> "1"
         [] k = "Sec-Fetch-Dest" -> "document"
         [] k = "Sec-Fetch-Mode" -> "navigate"
         [] k = "Sec-Fetch-Site" -> "none"
         [] k = "Cache-Control" -> "max-age=0"]

ChromeHeaders(profile) ==
    [k \in {"sec-ch-ua", "sec-ch-ua-mobile", "sec-ch-ua-platform"} |->
       CASE k = "sec-ch-ua" ->
              <<"Google Chrome", Head(profile.browser_version),
                "Chromium", Head(profile.browser_version), "Not_A Brand", 8>>
         [] k = "sec-ch-ua-mobile" -> "?0"
         [] k = "sec-ch-ua-platform" -> profile.platform]

\* SessionManager.get_session_headers: the cache it leaves and the headers
get_session_headers(cache, sid, base_headers, t) ==
    LET profile == IF sid \notin DOMAIN cache THEN get_profile_for_session(sid)
                   ELSE cache[sid].profile
        h1 == Update(to_headers(profile), base_headers)
        h2 == Update(h1, AdditionalHeaders)
    IN  [cache |-> IF sid \notin DOMAIN cache
                   THEN Put(cache, sid, [profile |-> profile, created_at |-> t])
                   ELSE cache,
         headers |-> IF profile.browser_name = "Chrome"
                     THEN Update(h2, ChromeHeaders(profile)) ELSE h2]

cleanup_expired_sessions(cache, active_session_ids) ==
    Drop(cache, {sid \in DOMAIN cache : sid \notin active_session_ids})

\* ----------------------------------------------------------------- threads
\* A thread inside a method of the manager: the method (op), the statement
\* it is about to execute (pc), the arguments session_id and error_type, and
\* its locals: the counter an increment is at (field) and the value loaded
\* for it (tmp), active_count and the number of generated ids
\* _ensure_sessions has skipped (attempts), the list active_sessions and the
\* session selected from it.  recorded is history: for each session_id the
\* number of record_success and record_failure calls the thread completed.
Workers == 1..MaxWorkers

Idle ==
    [op |-> "none", pc |-> "idle", session_id |-> None, tmp |-> None,
     field |-> "none", active_count |-> None, attempts |-> 0,
     active_sessions |-> <<>>, selected_session |-> NoSession,
     recorded |-> <<>>]

\* ----------------------------------------------------------------- actions
EmptyMap == [x \in {} |-> None]

SetManager(M) ==
    /\ sessions' = M.sessions
    /\ session_order' = M.session_order
    /\ metrics' = M.metrics
    /\ blacklisted_sessions' = M.blacklisted_sessions
    /\ last_blacklisted' =
         [x \in DOMAIN last_blacklisted \cup DOMAIN M.blacklisted_sessions |->
            IF x \in DOMAIN M.blacklisted_sessions
            THEN M.blacklisted_sessions[x] ELSE last_blacklisted[x]]

\* The state after the constructors: ProxyManager.__init__ and
\* BrightdataProxyMiddleware.__init__ (which raises NotConfigured, so that
\* there is no middleware, unless is_enabled() holds).
Constructed(fields, n_sessions, n_retries) ==
    /\ hash_seed = 0
    /\ session_profiles = EmptyMap
    /\ returned = [results |-> EmptyMap, rederived |-> {}]
    /\ now = 0
    /\ config_fields = fields
    /\ use_proxies = TRUE
    /\ has_config = TRUE
    /\ enabled = TRUE
    /\ max_sessions = n_sessions
    /\ max_retries = n_retries
    /\ sessions = <<>>
    /\ session_order = <<>>
    /\ metrics = EmptyMap
    /\ blacklisted_sessions = EmptyMap
    /\ last_blacklisted = EmptyMap
    /\ request = Request
    /\ workers = [w \in Workers |-> Idle]

\* time passes
AdvanceClock ==
    /\ now' = now + Tick
    /\ UNCHANGED <<settings, session_utils, sessions, session_order, metrics,
                   blacklisted_sessions, last_blacklisted, request, workers>>

\* the engine hands the middleware the next request
NewRequest(req) ==
    /\ request' = [req EXCEPT !.st = "new"]
    /\ UNCHANGED <<now, settings, session_utils, sessions, session_order, metrics,
                   blacklisted_sessions, last_blacklisted, workers>>

ProcessRequest(gen, pick) ==
    /\ request.st = "new"
    /\ LET H == process_request(request, Manager, gen, pick, now)
       IN  /\ SetManager(H.m)
           /\ request' =
                [H.req EXCEPT
                   !.st = IF H.ret = "TypeError" THEN "raised" ELSE "sent",
                   !.hook = "process_request",
                   !.status = None,
                   !.exception = "none",
                   !.ret = H.ret,
                   !.attached = H.req.proxy_session_id # request.proxy_session_id,
                   !.calls = 0]
    /\ UNCHANGED <<now, settings, session_utils, workers>>

\* What a response or exception hook leaves of the request it was given.
Outcome(old, H, hook, status, exception) ==
    [H.req EXCEPT
       !.st = IF H.ret = "TypeError" THEN "raised"
              ELSE IF H.ret = "retry" THEN "new" ELSE "done",
       !.hook = hook,
       !.status = status,
       !.exception = exception,
       !.ret = H.ret,
       !.attached = IF H.ret = "retry" THEN FALSE ELSE @,
       !.prev_sid = IF H.ret = "retry" THEN old.proxy_session_id ELSE @,
       !.chain = IF H.ret = "retry" THEN @ + 1 ELSE @,
       !.calls = IF H.ret = "retry" THEN 0
                 ELSE IF hook = "process_response" THEN @ + 1 ELSE @]

\* The hook can be called on a request that is with the downloader, and
\* again with the same request and response.
Repeated(status) ==
    /\ request.st = "done"
    /\ request.hook = "process_response"
    /\ request.status = status

ProcessResponse(status) ==
    /\ request.st = "sent" \/ Repeated(status)
    /\ LET H == process_response(request, status, Manager, now)
       IN  /\ SetManager(H.m)
           /\ request' = Outcome(request, H, "process_response", status, "none")
    /\ UNCHANGED <<now, settings, session_utils, workers>>

ProcessException(exception) ==
    /\ request.st = "sent"
    /\ LET H == process_exception(request, exception, Manager, now)
       IN  /\ SetManager(H.m)
           /\ request' = Outcome(request, H, "process_exception", None, exception)
    /\ UNCHANGED <<now, settings, session_utils, workers>>

\* The base_headers of the callers: none, and a dictionary that names a
\* header of the profile and one of the additional ones.
BaseHeaders ==
    <<EmptyMap,
      [k \in {"Accept-Language", "DNT", "Referer"} |->
         CASE k = "Accept-Language" -> "en-US"
           [] k = "DNT" -> "0"
           [] k = "Referer" -> "https://www.google.com/"]>>

ProxyKept ==
    UNCHANGED <<now, settings, sessions, session_order, metrics,
                blacklisted_sessions, last_blacklisted, request, workers,
                hash_seed>>

\* the history after a call for sid that derives the profile or not
Returns(call, sid, result, derives) ==
    [results |-> Put(returned.results, call, result),
     rederived |->
        IF derives /\ call \in DOMAIN returned.results
        THEN returned.rederived \cup {sid} ELSE returned.rederived]

GetProfileForSession(sid) ==
    /\ returned' = Returns(<<"get_profile_for_session", sid, 1>>, sid,
                           get_profile_for_session(sid), FALSE)
    /\ UNCHANGED session_profiles
    /\ ProxyKept

GetSessionHeaders(sid, b) ==
    LET H == get_session_headers(session_profiles, sid, BaseHeaders[b], now)
    IN  /\ session_profiles' = H.cache
        /\ returned' = Returns(<<"get_session_headers", sid, b>>, sid,
                               H.headers, sid \notin DOMAIN session_profiles)
        /\ ProxyKept

CleanupExpiredSessions(active_session_ids) ==
    /\ session_profiles' =
          cleanup_expired_sessions(session_profiles, active_session_ids)
    /\ UNCHANGED returned
    /\ ProxyKept

\* ------------------------------------------------ the methods by statement
\* A thread executes one statement of a method of the manager at a time; an
\* increment x += 1 is a load of x and a store of the loaded value plus one.
Call(w, op, pc, sid) ==
    [workers EXCEPT ![w] = [Idle EXCEPT !.op = op, !.pc = pc, !.session_id = sid,
                                        !.field = "requests_sent",
                                        !.recorded = workers[w].recorded]]

Goto(w, pc) == [workers EXCEPT ![w].pc = pc]

Return(w) ==
    LET W == workers[w]
        n == IF W.session_id \in DOMAIN W.recorded
             THEN W.recorded[W.session_id] ELSE 0
    IN  [workers EXCEPT ![w] =
           [Idle EXCEPT !.recorded =
              IF W.op \in {"record_success", "record_failure"}
              THEN Put(W.recorded, W.session_id, n + 1) ELSE W.recorded]]

RegistryKept ==
    UNCHANGED <<sessions, session_order, blacklisted_sessions, last_blacklisted>>

\* record_success, lines 239-240: if session_id in self.metrics
CallRecordSuccess(w, sid) ==
    /\ workers[w].pc = "idle"
    /\ workers' = IF sid \in DOMAIN metrics
                  THEN Call(w, "record_success", "load", sid) ELSE workers
    /\ RegistryKept
    /\ UNCHANGED <<now, settings, session_utils, request, metrics>>

\* record_failure, lines 255-256, with the default error_type
CallRecordFailure(w, sid) ==
    /\ workers[w].pc = "idle"
    /\ workers' = IF sid \in DOMAIN metrics
                  THEN Call(w, "record_failure", "load", sid) ELSE workers
    /\ RegistryKept
    /\ UNCHANGED <<now, settings, session_utils, request, metrics>>

\* lines 241, 242, 257, 258: the read of metric.<field> += 1
Load(w) ==
    /\ workers[w].pc = "load"
    /\ workers' = [workers EXCEPT
                     ![w].tmp = metrics[workers[w].session_id][workers[w].field],
                     ![w].pc = "store"]
    /\ RegistryKept
    /\ UNCHANGED <<now, settings, session_utils, request, metrics>>

\* lines 241, 242, 257, 258: the write of metric.<field> += 1
Store(w) ==
    LET W == workers[w]
        second == IF W.op = "record_success"
                  THEN "successful_requests" ELSE "failed_requests"
    IN  /\ W.pc = "store"
        /\ metrics' = [metrics EXCEPT ![W.session_id][W.field] = W.tmp + 1]
        /\ workers' =
              IF W.field = "requests_sent"
              THEN [workers EXCEPT ![w].field = second, ![w].pc = "load"]
              ELSE Goto(w, IF W.op = "record_success"
                           THEN "last_success" ELSE "test")
        /\ RegistryKept
        /\ UNCHANGED <<now, settings, session_utils, request>>

\* line 244
SetLastSuccess(w) ==
    /\ workers[w].pc = "last_success"
    /\ metrics' = [metrics EXCEPT ![workers[w].session_id].last_success = now]
    /\ workers' = Return(w)
    /\ RegistryKept
    /\ UNCHANGED <<now, settings, session_utils, request>>

\* line 268
TestBlacklist(w) ==
    /\ workers[w].pc = "test"
    /\ workers' = IF ShouldBlacklist(metrics[workers[w].session_id])
                  THEN Goto(w, "blacklist_stamp") ELSE Return(w)
    /\ RegistryKept
    /\ UNCHANGED <<now, settings, session_utils, request, metrics>>

\* _blacklist_session, line 348
BlacklistStamp(w) ==
    /\ workers[w].pc = "blacklist_stamp"
    /\ blacklisted_sessions' = Put(blacklisted_sessions, workers[w].session_id, now)
    /\ last_blacklisted' = Put(last_blacklisted, workers[w].session_id, now)
    /\ workers' = Goto(w, "blacklist_del")
    /\ UNCHANGED <<now, settings, session_utils, request, metrics, sessions, session_order>>

\* _blacklist_session, lines 350-351
BlacklistDel(w) ==
    /\ workers[w].pc = "blacklist_del"
    /\ sessions' = DictDel(sessions, workers[w].session_id)
    /\ workers' = Goto(w, "blacklist_order")
    /\ UNCHANGED <<now, settings, session_utils, request, metrics, session_order,
                   blacklisted_sessions, last_blacklisted>>

\* _blacklist_session, lines 353-354
BlacklistOrder(w) ==
    /\ workers[w].pc = "blacklist_order"
    /\ session_order' = ListRemove(session_order, workers[w].session_id)
    /\ workers' = Return(w)
    /\ UNCHANGED <<now, settings, session_utils, request, metrics, sessions,
                   blacklisted_sessions, last_blacklisted>>

\* get_proxy, lines 198-202: is_enabled() and _cleanup_expired()
CallGetProxy(w) ==
    /\ workers[w].pc = "idle"
    /\ IF is_enabled
       THEN /\ SetManager(cleanup_expired(Manager, now))
            /\ workers' = Call(w, "get_proxy", "ensure_count", None)
       ELSE UNCHANGED <<sessions, session_order, metrics, blacklisted_sessions,
                        last_blacklisted, workers>>
    /\ UNCHANGED <<now, settings, session_utils, request>>

\* _ensure_sessions, lines 276-280
EnsureCount(w) ==
    /\ workers[w].pc = "ensure_count"
    /\ workers' =
         IF has_config
         THEN [workers EXCEPT
                 ![w].active_count = Len(ActiveSessions(sessions, now)),
                 ![w].pc = "ensure_loop"]
         ELSE Goto(w, "snapshot")
    /\ RegistryKept
    /\ UNCHANGED <<now, settings, session_utils, request, metrics>>

\* _ensure_sessions, lines 282-309: one turn of the loop, generated the id
\* _generate_session_id returns
EnsureLoop(w, generated) ==
    LET W == workers[w]
    IN  /\ W.pc = "ensure_loop"
        /\ IF W.active_count >= max_sessions
           THEN /\ workers' = Goto(w, "snapshot")
                /\ UNCHANGED <<sessions, session_order>>
           ELSE IF generated \in DOMAIN blacklisted_sessions
           THEN /\ workers' = [workers EXCEPT ![w].attempts = @ + 1]
                /\ UNCHANGED <<sessions, session_order>>
           ELSE IF ConstructorRaises
           THEN /\ workers' = Return(w)
                /\ UNCHANGED <<sessions, session_order>>
           ELSE /\ sessions' = DictSet(sessions, ProxySession(generated, now))
                /\ session_order' = Append(session_order, generated)
                /\ workers' = [workers EXCEPT ![w].active_count = @ + 1]
        /\ UNCHANGED <<now, settings, session_utils, request, metrics, blacklisted_sessions,
                       last_blacklisted>>

\* get_proxy, lines 208-212: the list holds the session objects
Snapshot(w) ==
    LET active_sessions == ActiveSessions(sessions, now)
    IN  /\ workers[w].pc = "snapshot"
        /\ workers' =
              IF active_sessions = <<>> THEN Return(w)
              ELSE [workers EXCEPT ![w].active_sessions = active_sessions,
                                   ![w].pc = "select"]
        /\ RegistryKept
        /\ UNCHANGED <<now, settings, session_utils, request, metrics>>

\* A session object as it is now: the one of the registry as long as it is
\* in there, the object the thread holds once it was removed.
Object(x) ==
    IF /\ x.session_id \in Keys(sessions)
       /\ Lookup(sessions, x.session_id).created_at = x.created_at
    THEN Lookup(sessions, x.session_id)
    ELSE x

\* get_proxy, line 215
Select(w, pick) ==
    LET l == [i \in DOMAIN workers[w].active_sessions |->
                Object(workers[w].active_sessions[i])]
        mt == Touch(metrics, Keys(l))
    IN  /\ workers[w].pc = "select"
        /\ pick \in select_next(l, mt, now)
        /\ metrics' = mt
        /\ workers' = [workers EXCEPT ![w].selected_session = Lookup(l, pick),
                                      ![w].pc = "use"]
        /\ RegistryKept
        /\ UNCHANGED <<now, settings, session_utils, request>>

\* get_proxy, lines 222-235: selected_session.use() and the return
Use(w) ==
    LET selected_session == Object(workers[w].selected_session)
    IN  /\ workers[w].pc = "use"
        /\ sessions' =
              IF selected_session.session_id \in Keys(sessions)
              THEN DictSet(sessions, use(selected_session, now))
              ELSE sessions
        /\ workers' = Return(w)
        /\ UNCHANGED <<now, settings, session_utils, request, metrics, session_order,
                       blacklisted_sessions, last_blacklisted>>

\* ------------------------------------------------------------------ inputs
Plain == [Request EXCEPT !.st = "new"]

\* meta copied from an earlier proxied request of session sid
Carried(sid, n) ==
    [Plain EXCEPT !.proxy = TRUE, !.proxy_session_id = sid,
                  !.brightdata_enabled = TRUE, !.brightdata_retry_count = n]

SpiderRequests ==
    {Plain,
     [Plain EXCEPT !.url_skip = TRUE],
     [Plain EXCEPT !.skip_brightdata_proxy = TRUE],
     [Plain EXCEPT !.proxy = TRUE],
     [Plain EXCEPT !.user_agent = CallerAgent],
     [Plain EXCEPT !.proxy = TRUE, !.brightdata_enabled = TRUE]}

CarriedRequests == {Carried(sid, 0) : sid \in SessionIds}

Statuses == {200, 301, 400, 403, 404, 429, 500, 502, 503, 504, 599, 600}

Exceptions ==
    {"TimeoutError", "DNSLookupError", "ConnectionRefusedError",
     "TCPTimedOutError", "ValueError"}

\* --------------------------------------------------------- specifications
GetProxyChoices ==
    {c \in GenChoices(Manager, now) \X (SessionIds \cup {None}) :
       c[2] \in PickChoices(Manager, c[1], now)}

\* The generated ids are new to the active map and differ from each other.
FreshIds(gen) ==
    \A i \in DOMAIN gen :
      /\ gen[i] \notin Keys(cleanup_expired(Manager, now).sessions)
      /\ \A j \in DOMAIN gen : j # i => gen[j] # gen[i]

\* The generated ids are the lowest ones free: one pool up to the names of
\* its sessions.
FirstIds(gen) ==
    LET M1 == cleanup_expired(Manager, now)
        free == AcceptedIds(M1) \ Keys(M1.sessions)
    IN  /\ FreshIds(gen)
        /\ \A i \in DOMAIN gen : \A x \in free :
              x < gen[i] => \E j \in 1..(i - 1) : gen[j] = x

\* at most n outcomes recorded in all, at most k successes on one session
RecordsWithin(n, k) ==
    /\ Sum([sid \in DOMAIN metrics' |-> metrics'[sid].requests_sent],
           DOMAIN metrics') <= n
    /\ \A sid \in DOMAIN metrics' : metrics'[sid].successful_requests <= k

\* The hooks on every kind of request, response and exception.
Next ==
    \/ now < CodeMaxTicks * Tick /\ AdvanceClock
    \/ \E req \in SpiderRequests \cup CarriedRequests : NewRequest(req)
    \/ \E c \in GetProxyChoices : ProcessRequest(c[1], c[2])
    \/ \E status \in Statuses :
         ProcessResponse(status) /\ request'.calls <= MaxCalls
    \/ \E exception \in Exceptions : ProcessException(exception)

\* the code as declared: BrightdataConfig without a session_id field
Init == Constructed(BrightdataConfigFields, MaxSessions, MaxRetries)

Spec == Init /\ [][Next]_vars

\* From here on the config class takes the session_id keyword, so that the
\* registry holds sessions.
InitPool == Constructed(SessionConfigKeywords, MaxSessions, MaxRetries)

\* The hooks over a pool that holds sessions, at one reading of the clock:
\* each request gets its outcome before the next is handed in.
NextHooks ==
    \/ \E req \in SpiderRequests \cup CarriedRequests :
         request.st # "sent" /\ NewRequest(req)
    \/ \E c \in GetProxyChoices : FirstIds(c[1]) /\ ProcessRequest(c[1], c[2])
    \/ \E status \in Statuses :
         /\ ProcessResponse(status)
         /\ request'.calls <= MaxCalls
         /\ RecordsWithin(HookMaxRecords, HookMaxRecords)
    \/ \E exception \in Exceptions :
         /\ ProcessException(exception)
         /\ RecordsWithin(HookMaxRecords, HookMaxRecords)

SpecHooks == InitPool /\ [][NextHooks]_vars

\* creation, rotation and expiry: each request gets its outcome
NextPool ==
    \/ now < PoolMaxTicks * Tick /\ AdvanceClock
    \/ \E req \in {Plain} : request.st # "sent" /\ NewRequest(req)
    \/ \E c \in GetProxyChoices : FreshIds(c[1]) /\ ProcessRequest(c[1], c[2])
    \/ \E status \in {200, 500} :
         /\ ProcessResponse(status)
         /\ request'.calls <= 1
         /\ RecordsWithin(PoolMaxRecords, PoolMaxRecords)
    \/ \E exception \in {"ValueError"} :
         /\ ProcessException(exception)
         /\ RecordsWithin(PoolMaxRecords, PoolMaxRecords)

SpecPool == InitPool /\ [][NextPool]_vars

\* health and blacklisting: enough outcomes on one session to blacklist it
NextBlacklist ==
    \/ now < BlacklistMaxTicks * Tick /\ AdvanceClock
    \/ \E req \in {Plain} : request.st # "sent" /\ NewRequest(req)
    \/ \E c \in GetProxyChoices : FreshIds(c[1]) /\ ProcessRequest(c[1], c[2])
    \/ \E status \in {200, 500} :
         /\ ProcessResponse(status)
         /\ request'.calls <= 1
         /\ RecordsWithin(BlacklistMaxRecords, BlacklistMaxSuccesses)
    \/ \E exception \in {"ValueError"} :
         /\ ProcessException(exception)
         /\ RecordsWithin(BlacklistMaxRecords, BlacklistMaxSuccesses)

SpecBlacklist == InitPool /\ [][NextBlacklist]_vars

\* a session used until it is worn out: requests are handed in and proxied,
\* no outcome is reported
NextUse ==
    \/ \E req \in {Plain} : NewRequest(req)
    \/ \E c \in GetProxyChoices : FirstIds(c[1]) /\ ProcessRequest(c[1], c[2])

SpecUse == InitPool /\ [][NextUse]_vars

\* The whole life of an id: blacklisting, expiry, and the cleanup of both.
\* A tick is half an hour, far above the download timeout: the clock moves
\* between requests, not between a request and its response.
NextHistory ==
    \/ now < PoolMaxTicks * Tick /\ request.st # "sent" /\ AdvanceClock
    \/ \E req \in {Plain} : request.st # "sent" /\ NewRequest(req)
    \/ \E c \in GetProxyChoices : FirstIds(c[1]) /\ ProcessRequest(c[1], c[2])
    \/ \E status \in {200, 500} :
         /\ ProcessResponse(status)
         /\ request'.calls <= 1
         /\ RecordsWithin(BlacklistMaxRecords, BlacklistMaxSuccesses)

SpecHistory == InitPool /\ [][NextHistory]_vars

\* rotation over a pool of several sessions, healthy and not
InitRotation == Constructed(SessionConfigKeywords, RotationSessions, MaxRetries)

NextRotation ==
    \/ now < PoolMaxTicks * Tick /\ request.st # "sent" /\ AdvanceClock
    \/ \E req \in {Plain} : request.st # "sent" /\ NewRequest(req)
    \/ \E c \in GetProxyChoices : FirstIds(c[1]) /\ ProcessRequest(c[1], c[2])
    \/ \E status \in {200, 500} :
         /\ ProcessResponse(status)
         /\ request'.calls <= 1
         /\ RecordsWithin(RotationMaxRecords, RotationMaxRecords)

SpecRotation == InitRotation /\ [][NextRotation]_vars

\* the happy path: every request is proxied and answered with a 200
InitStats == Constructed(SessionConfigKeywords, StatsSessions, MaxRetries)

NextStats ==
    \/ \E req \in {Plain} : request.st # "sent" /\ NewRequest(req)
    \/ \E c \in GetProxyChoices : FirstIds(c[1]) /\ ProcessRequest(c[1], c[2])
    \/ \E status \in {200} :
         /\ ProcessResponse(status)
         /\ request'.calls <= 1
         /\ RecordsWithin(StatsSessions + 1, StatsSessions + 1)

SpecStats == InitStats /\ [][NextStats]_vars

\* The ids a turn of the loop of _ensure_sessions can generate: one in the
\* blacklist, or the lowest that is free.
Generated ==
    LET free == SessionIds \ (DOMAIN blacklisted_sessions \cup Keys(sessions))
    IN  DOMAIN blacklisted_sessions
          \cup {x \in free : \A y \in free : x <= y}

\* the record_success and record_failure calls completed for sid
Recorded(sid) ==
    Sum([w \in Workers |->
           IF sid \in DOMAIN workers[w].recorded
           THEN workers[w].recorded[sid] ELSE 0], Workers)

\* An outcome is due for sid: get_proxy handed the session out more often
\* than outcomes were recorded or are being recorded for it.
Outstanding(sid) ==
    /\ sid \in Keys(sessions)
    /\ Recorded(sid)
         + Cardinality({w \in Workers :
              /\ workers[w].op \in {"record_success", "record_failure"}
              /\ workers[w].session_id = sid})
         < Lookup(sessions, sid).requests_count

\* threads recording outcomes for the sessions get_proxy handed out
NextRecords ==
    \/ \E w \in Workers :
         /\ \A x \in Values(sessions) : x.requests_count < WorkerMaxUses
         /\ CallGetProxy(w)
    \/ \E w \in Workers : EnsureCount(w)
    \/ \E w \in Workers, generated \in Generated : EnsureLoop(w, generated)
    \/ \E w \in Workers : Snapshot(w)
    \/ \E w \in Workers, pick \in SessionIds : Select(w, pick)
    \/ \E w \in Workers : Use(w)
    \/ \E w \in Workers, sid \in SessionIds :
         /\ Outstanding(sid)
         /\ CallRecordSuccess(w, sid)
    \/ \E w \in Workers, sid \in SessionIds :
         /\ Outstanding(sid)
         /\ CallRecordFailure(w, sid)
    \/ \E w \in Workers : Load(w)
    \/ \E w \in Workers : Store(w)
    \/ \E w \in Workers : SetLastSuccess(w)
    \/ \E w \in Workers : TestBlacklist(w)

SpecRecords == InitPool /\ [][NextRecords]_vars

\* The thread of the response callbacks records failures while the other
\* threads are in get_proxy.
Recorders == {1}

NextRace ==
    \/ \E w \in Workers \ Recorders :
         /\ \A x \in Values(sessions) : x.requests_count < BlacklistMaxRecords
         /\ CallGetProxy(w)
    \/ \E w \in Workers : EnsureCount(w)
    \/ \E w \in Workers, generated \in Generated :
         /\ workers[w].attempts <= EnsureMaxAttempts
         /\ EnsureLoop(w, generated)
    \/ \E w \in Workers : Snapshot(w)
    \/ \E w \in Workers, pick \in SessionIds : Select(w, pick)
    \/ \E w \in Workers : Use(w)
    \/ \E w \in Recorders, sid \in SessionIds :
         /\ Outstanding(sid)
         /\ CallRecordFailure(w, sid)
    \/ \E w \in Workers : Load(w)
    \/ \E w \in Workers : Store(w)
    \/ \E w \in Workers : TestBlacklist(w)
    \/ \E w \in Workers : BlacklistStamp(w)
    \/ \E w \in Workers : BlacklistDel(w)
    \/ \E w \in Workers : BlacklistOrder(w)

SpecRace == InitPool /\ [][NextRace]_vars

\* late outcomes: requests that carry the meta of an earlier proxied request
\* come in while sessions fail until they are blacklisted
NextLate ==
    \/ \E req \in {Plain, [Plain EXCEPT !.proxy = TRUE,
                                        !.brightdata_enabled = TRUE]}
                     \cup CarriedRequests :
         request.st # "sent" /\ NewRequest(req)
    \/ \E c \in GetProxyChoices : FirstIds(c[1]) /\ ProcessRequest(c[1], c[2])
    \/ \E status \in {500} :
         /\ ProcessResponse(status)
         /\ request'.calls <= 1
         /\ RecordsWithin(BlacklistMaxRecords, 0)
    \/ \E exception \in {"ValueError"} :
         /\ ProcessException(exception)
         /\ RecordsWithin(BlacklistMaxRecords, 0)

SpecLate == InitPool /\ [][NextLate]_vars

\* One thread through the statements of the manager, one request at a time
\* (the outcome of a request is recorded before the next get_proxy), while the
\* clock moves between its calls: sessions expire, blacklist entries run out.
NextCleanup ==
    \/ /\ now < PoolMaxTicks * Tick
       /\ \A w \in Workers : workers[w].pc = "idle"
       /\ AdvanceClock
    \/ \E w \in Recorders :
         /\ \A x \in Values(sessions) : x.requests_count < BlacklistMaxRecords
         /\ \A sid \in SessionIds : ~Outstanding(sid)
         /\ CallGetProxy(w)
    \/ \E w \in Workers : EnsureCount(w)
    \/ \E w \in Workers, generated \in Generated :
         /\ workers[w].attempts < EnsureMaxAttempts
         /\ EnsureLoop(w, generated)
    \/ \E w \in Workers : Snapshot(w)
    \/ \E w \in Workers, pick \in SessionIds : Select(w, pick)
    \/ \E w \in Workers : Use(w)
    \/ \E w \in Recorders, sid \in SessionIds :
         /\ Outstanding(sid)
         /\ CallRecordFailure(w, sid)
    \/ \E w \in Workers : Load(w)
    \/ \E w \in Workers : Store(w)
    \/ \E w \in Workers : TestBlacklist(w)
    \/ \E w \in Workers : BlacklistStamp(w)
    \/ \E w \in Workers : BlacklistDel(w)
    \/ \E w \in Workers : BlacklistOrder(w)

SpecCleanup == InitPool /\ [][NextCleanup]_vars

\* a pool of several sessions whose generated ids may repeat: an id is the
\* hash of the millisecond and a number of 1000..9999, and the loop of
\* _ensure_sessions generates several within one millisecond
NextCollide ==
    \/ now < PoolMaxTicks * Tick /\ request.st # "sent" /\ AdvanceClock
    \/ \E req \in {Plain} : request.st # "sent" /\ NewRequest(req)
    \/ \E c \in GetProxyChoices : ProcessRequest(c[1], c[2])
    \/ \E status \in {200, 500} :
         /\ ProcessResponse(status)
         /\ request'.calls <= 1
         /\ RecordsWithin(RotationMaxRecords, RotationMaxRecords)

SpecCollide == InitRotation /\ [][NextCollide]_vars

\* The session manager of session_utils in a process of any hash seed.
InitProfiles ==
    /\ hash_seed \in 0..MaxHashSeed
    /\ session_profiles = EmptyMap
    /\ returned = [results |-> EmptyMap, rederived |-> {}]
    /\ now = 0
    /\ config_fields = SessionConfigKeywords
    /\ use_proxies = TRUE
    /\ has_config = TRUE
    /\ enabled = TRUE
    /\ max_sessions = MaxSessions
    /\ max_retries = MaxRetries
    /\ sessions = <<>>
    /\ session_order = <<>>
    /\ metrics = EmptyMap
    /\ blacklisted_sessions = EmptyMap
    /\ last_blacklisted = EmptyMap
    /\ request = Request
    /\ workers = [w \in Workers |-> Idle]

NextProfiles ==
    \/ \E sid \in SessionIds : GetProfileForSession(sid)
    \/ \E sid \in SessionIds, b \in DOMAIN BaseHeaders : GetSessionHeaders(sid, b)
    \/ \E active_session_ids \in SUBSET SessionIds :
         CleanupExpiredSessions(active_session_ids)

SpecProfiles == InitProfiles /\ [][NextProfiles]_vars

\* ------------------------------------------------------------------ claims
\* C1: in every reachable state of the manager the number of sessions in the
\* registry that are not expired is at most max_sessions.
C1_ActiveWithinMax == Len(ActiveSessions(sessions, now)) <= max_sessions

\* a full pool after a session was replaced: more ids have been handed out
\* than the pool holds
C1_Witness ==
    /\ Len(ActiveSessions(sessions, now)) = max_sessions
    /\ Cardinality(DOMAIN metrics) > max_sessions

\* C2: no session_id is at the same time a key of the registry (sessions)
\* and a key of the blacklist (blacklisted_sessions).
C2_ActiveDisjointBlacklist ==
    Keys(sessions) \cap DOMAIN blacklisted_sessions = {}

\* an id is blacklisted and the pool was replenished with another session
C2_Witness ==
    /\ DOMAIN blacklisted_sessions # {}
    /\ Keys(sessions) # {}

ResponseCall ==
    /\ request.st \in {"sent", "done"}
    /\ request'.hook = "process_response"
    /\ request' # request

ExceptionCall ==
    /\ request.st = "sent"
    /\ request'.hook = "process_exception"

\* a request the middleware routed through a session
Proxied(req) == req.brightdata_enabled /\ req.proxy_session_id # None

C6_ResponseRetryRule ==
    [][(ResponseCall /\ Proxied(request))
         => LET status == request'.status
                failure == ~((200 <= status /\ status < 400) \/ status = 404)
            IN  IF /\ failure
                   /\ status \in {403, 429, 502, 503, 504}
                   /\ request.brightdata_retry_count < max_retries
                THEN request'.ret = "retry"
                ELSE request'.ret = "response" /\ request'.st = "done"
      ]_vars

\* a blocked response to the last retry of a chain is handed on
C6_Witness ==
    /\ request.hook = "process_response"
    /\ request.status = 403
    /\ request.ret = "response"
    /\ max_retries > 0
    /\ request.brightdata_retry_count = max_retries
    /\ request.attached

\* C7: process_exception on a proxied request returns a retry request if and
\* only if the exception is a TimeoutError (timeout), DNSLookupError or
\* ConnectionRefusedError (connection_error) and brightdata_retry_count <
\* max_retries, and None otherwise; on a session the manager keeps counters
\* of it records one failure, counted as a timeout for a TimeoutError only.
C7_ExceptionRule ==
    [][(ExceptionCall /\ Proxied(request))
         => LET e == request'.exception
                sid == request.proxy_session_id
                kind == IF e = "TimeoutError" THEN "timeout"
                        ELSE IF e \in {"DNSLookupError", "ConnectionRefusedError"}
                        THEN "connection_error"
                        ELSE "unknown"
            IN  /\ request'.ret \in {"retry", "None"}
                /\ request'.ret = "retry"
                     <=> /\ kind \in {"timeout", "connection_error"}
                         /\ request.brightdata_retry_count < max_retries
                /\ sid \in DOMAIN metrics
                     => metrics'[sid] =
                          [metrics[sid] EXCEPT
                             !.requests_sent = @ + 1,
                             !.failed_requests = @ + 1,
                             !.timeout_requests =
                                 IF kind = "timeout" THEN @ + 1 ELSE @]
                /\ \A x \in DOMAIN metrics \ {sid} : metrics'[x] = metrics[x]
      ]_vars

\* a connection error was recorded on the session and answered with a retry
C7_Witness ==
    /\ request.hook = "process_exception"
    /\ request.exception = "DNSLookupError"
    /\ request.ret = "retry"
    /\ request.prev_sid \in DOMAIN metrics
    /\ metrics[request.prev_sid].failed_requests = 1
    /\ metrics[request.prev_sid].timeout_requests = 0

\* C8: the hooks never raise; each returns None, the response, or a retry
\* request.
C8_HooksNeverRaise ==
    /\ request.st # "raised"
    /\ request.ret \in {"none", "None", "response", "retry"}

Meta(req) ==
    <<req.url_skip, req.skip_brightdata_proxy, req.proxy, req.proxy_session_id,
      req.proxy_created_at, req.proxy_requests_count, req.brightdata_enabled,
      req.request_start_time, req.brightdata_retry_count, req.user_agent>>

\* A step that is a call of process_request.
RequestCall ==
    /\ request.st = "new"
    /\ request'.st # "new"

ManagerUnchanged ==
    UNCHANGED <<sessions, session_order, metrics, blacklisted_sessions>>

\* C14: process_request returns None and changes nothing (meta, headers,
\* registry, requests_count of every session, blacklist, metrics; no session
\* is created) when the middleware is disabled, meta['proxy'] is set, the
\* url holds /robots.txt, /favicon.ico or /sitemap, or
\* meta['skip_brightdata_proxy'] is set.
C14_SkippedRequestUntouched ==
    [][(/\ RequestCall
        /\ \/ ~enabled
           \/ request.proxy
           \/ request.url_skip
           \/ request.skip_brightdata_proxy)
         => /\ request'.ret = "None"
            /\ Meta(request') = Meta(request)
            /\ ManagerUnchanged
      ]_vars

\* a request with the skip flag went through process_request while the pool
\* held a session
C14_Witness ==
    /\ request.hook = "process_request"
    /\ request.skip_brightdata_proxy
    /\ request.ret = "None"
    /\ ~request.proxy
    /\ Keys(sessions) # {}

\* C15: for a request without the brightdata_enabled flag process_response
\* returns the response and process_exception returns None; neither changes
\* metrics, sessions or blacklist, and no retry request is made.
C15_UnproxiedUntouched ==
    [][/\ (ResponseCall /\ ~request.brightdata_enabled)
          => /\ request'.ret = "response"
             /\ Meta(request') = Meta(request)
             /\ ManagerUnchanged
       /\ (ExceptionCall /\ ~request.brightdata_enabled)
          => /\ request'.ret = "None"
             /\ Meta(request') = Meta(request)
             /\ ManagerUnchanged
      ]_vars

\* a timeout on a request that was not proxied, with sessions in the pool
C15_Witness ==
    /\ request.hook = "process_exception"
    /\ request.exception = "TimeoutError"
    /\ ~request.brightdata_enabled
    /\ request.ret = "None"
    /\ DOMAIN metrics # {}

\* the kinds of the spec's table
SuccessStatus(status) == (200 <= status /\ status < 400) \/ status = 404

FailureKind(status) ==
    IF status = 403 THEN "blocked"
    ELSE IF status = 429 THEN "rate_limited"
    ELSE IF status \in 500..599 THEN "server_error"
    ELSE "http_error"

\* C16: process_response on a proxied request records a success iff
\* 200 <= status < 400 or status = 404 and a failure otherwise; the kind of
\* the failure is blocked for 403, rate_limited for 429, server_error for
\* 500..599 and http_error for every other status, and blocked_requests grows
\* for blocked only.  (The recording is stated for the sessions the manager
\* keeps counters of.)
C16_ResponseClassification ==
    [][(ResponseCall /\ Proxied(request))
         => LET status == request'.status
                sid == request.proxy_session_id
            IN  /\ is_successful_response(status) <=> SuccessStatus(status)
                /\ ~SuccessStatus(status)
                     => classify_response_error(status) = FailureKind(status)
                /\ sid \in DOMAIN metrics
                     => metrics'[sid] =
                          IF SuccessStatus(status)
                          THEN [metrics[sid] EXCEPT
                                  !.requests_sent = @ + 1,
                                  !.successful_requests = @ + 1,
                                  !.last_success = now]
                          ELSE [metrics[sid] EXCEPT
                                  !.requests_sent = @ + 1,
                                  !.failed_requests = @ + 1,
                                  !.blocked_requests =
                                      IF status = 403 THEN @ + 1 ELSE @]
      ]_vars

\* a rate-limited response was recorded as a failure that is not a block
C16_Witness ==
    /\ request.hook = "process_response"
    /\ request.status = 429
    /\ request.prev_sid \in DOMAIN metrics
    /\ metrics[request.prev_sid].failed_requests = 1
    /\ metrics[request.prev_sid].blocked_requests = 0

\* C17: get_proxy returns None only when the pool is disabled or no session
\* is unexpired after cleanup and _ensure_sessions; with proxies enabled, a
\* valid config and max_sessions >= 1 it returns a proxy and the meta naming
\* a session of the registry.  (What get_proxy returned is read off the
\* request process_request passed through it.)
C17_GetProxyReturnsSession ==
    [][(/\ RequestCall
        /\ enabled
        /\ ~request.proxy
        /\ ~request.url_skip
        /\ ~request.skip_brightdata_proxy)
         => /\ (use_proxies /\ has_config /\ max_sessions >= 1)
                 => /\ request'.ret = "None"
                    /\ request'.proxy
                    /\ request'.proxy_session_id \in Keys(sessions')
            /\ (request'.ret = "None" /\ ~request'.proxy)
                 => \/ ~(use_proxies /\ has_config)
                    \/ ActiveSessions(sessions', now) = <<>>
      ]_vars

\* C18: the request _retry_with_different_proxy returns has none of the
\* meta keys the middleware sets (proxy, proxy_session_id, proxy_created_at,
\* proxy_requests_count, brightdata_enabled, request_start_time).
C18_RetryClearsProxyMeta ==
    (request.st = "new" /\ request.ret = "retry")
       => /\ ~request.proxy
          /\ request.proxy_session_id = None
          /\ request.proxy_created_at = None
          /\ request.proxy_requests_count = None
          /\ ~request.brightdata_enabled
          /\ request.request_start_time = None

C19_MetricsMonotone ==
    [][\A sid \in DOMAIN metrics :
         /\ sid \in DOMAIN metrics'
         /\ metrics'[sid].requests_sent >= metrics[sid].requests_sent
         /\ metrics'[sid].successful_requests >= metrics[sid].successful_requests
         /\ metrics'[sid].failed_requests >= metrics[sid].failed_requests]_vars

\* an id that was blacklisted, whose blacklist entry was cleaned up since,
\* still has the counters that got it blacklisted, next to an id whose
\* session expired and left the registry
C19_Witness ==
    /\ \E sid \in DOMAIN last_blacklisted :
         /\ sid \notin DOMAIN blacklisted_sessions
         /\ sid \in DOMAIN metrics
         /\ metrics[sid].requests_sent > BlacklistMinRequests
         /\ metrics[sid].failed_requests > 0
    /\ \E sid \in DOMAIN metrics :
         /\ sid \notin DOMAIN last_blacklisted
         /\ sid \notin Keys(sessions)
         /\ metrics[sid].successful_requests > 0

\* C23: for every metrics entry, is_healthy is true exactly when success_rate
\* >= 80 and (last_success lies within the last 5 minutes or requests_sent
\* < 5); a session with requests_sent < 5, success_rate >= 80 and a
\* last_success older than 5 minutes is healthy.
C23_HealthyRule ==
    \A sid \in DOMAIN metrics :
      LET m == metrics[sid]
      IN  is_healthy(m, now)
            <=> /\ ~SuccessRateBelow(m, HealthyRate)
                /\ \/ (m.last_success # None
                         /\ now - m.last_success < HealthyWindow)
                   \/ m.requests_sent < NewProxyRequests

\* C24: for every session and time, is_expired is true exactly when
\* now - created_at >= max_duration or requests_count >= max_requests: true
\* at an age of exactly max_duration and at every later age.
C24_ExpiredRule ==
    \A s \in Values(sessions) :
      is_expired(s, now)
        <=> \/ now - s.created_at >= MaxDuration
            \/ s.requests_count >= MaxRequests

\* a process_request call that attached a session
Selecting == RequestCall /\ request'.attached

\* The non-expired sessions of the registry as the rotator saw them in this
\* call: the registry the call leaves, with the use() of the selected
\* session undone.
AtSelection ==
    LET before(x) ==
          IF x.session_id # request'.proxy_session_id THEN x
          ELSE IF /\ x.session_id \in Keys(sessions)
                  /\ Lookup(sessions, x.session_id).created_at = x.created_at
               THEN Lookup(sessions, x.session_id)
               ELSE ProxySession(x.session_id, x.created_at)
        all == {before(sessions'[i]) : i \in DOMAIN sessions'}
    IN  {x \in all : ~is_expired(x, now)}

Selected == {x \in AtSelection : x.session_id = request'.proxy_session_id}

HealthyAtSelection ==
    {x \in AtSelection : is_healthy(metrics'[x.session_id], now)}

\* C25: when no non-expired session is healthy, select_next returns the
\* session with the smallest requests_count among the non-expired sessions,
\* and among those tied for the smallest count the one with the earliest
\* last_used.
C25_FallbackLeastUsedEarliest ==
    [][(Selecting /\ HealthyAtSelection = {})
         => \E sel \in Selected : \A x \in AtSelection :
              \/ sel.requests_count < x.requests_count
              \/ /\ sel.requests_count = x.requests_count
                 /\ sel.last_used <= x.last_used]_vars

\* C26: the session get_proxy returns is a non-expired member of the
\* registry at selection time, and it is healthy whenever a non-expired
\* session of the registry is healthy by the metrics recorded so far.
C26_HealthyPreferred ==
    [][Selecting
         => /\ Selected # {}
            /\ HealthyAtSelection # {} => Selected \subseteq HealthyAtSelection
      ]_vars

\* a healthy session was handed out while another session of the pool,
\* with no more requests than it, was unhealthy
C26_Witness ==
    /\ request.hook = "process_request"
    /\ request.attached
    /\ is_healthy(metrics[request.proxy_session_id], now)
    /\ \E x \in Values(sessions) :
         /\ x.session_id # request.proxy_session_id
         /\ ~is_expired(x, now)
         /\ ~is_healthy(metrics[x.session_id], now)
         /\ x.requests_count < Lookup(sessions, request.proxy_session_id).requests_count

C29_EnsureFillsPool ==
    [][(/\ RequestCall
        /\ enabled /\ is_enabled
        /\ ~request.proxy
        /\ ~should_skip_request(request))
         => /\ Cardinality(AtSelection) = max_sessions
            /\ Len(sessions') = Cardinality(Keys(sessions'))
            /\ \A x \in Values(sessions') :
                 x.session_id \notin Keys(sessions)
                   => x.requests_count =
                        IF x.session_id = request'.proxy_session_id
                        THEN 1 ELSE 0]_vars

CleanupCall ==
    \E w \in Workers :
       /\ workers[w].pc = "idle"
       /\ workers'[w].op = "get_proxy"

\* C31: immediately after _cleanup_expired the active map holds no session
\* whose is_expired is true and the blacklist no entry older than the
\* blacklist TTL; the sessions that are not expired, the blacklist entries
\* within the TTL and all metrics are as they were.
C31_CleanupPostState ==
    [][CleanupCall =>
         /\ \A i \in DOMAIN sessions' : ~is_expired(sessions'[i], now)
         /\ \A sid \in DOMAIN blacklisted_sessions' :
               now - blacklisted_sessions'[sid] <= BlacklistDuration
         /\ \A i \in DOMAIN sessions :
               ~is_expired(sessions[i], now)
                  => \E j \in DOMAIN sessions' : sessions'[j] = sessions[i]
         /\ \A j \in DOMAIN sessions' :
               \E i \in DOMAIN sessions : sessions[i] = sessions'[j]
         /\ \A sid \in DOMAIN blacklisted_sessions :
               now - blacklisted_sessions[sid] <= BlacklistDuration
                  => /\ sid \in DOMAIN blacklisted_sessions'
                     /\ blacklisted_sessions'[sid] = blacklisted_sessions[sid]
         /\ DOMAIN blacklisted_sessions' \subseteq DOMAIN blacklisted_sessions
         /\ metrics' = metrics]_vars

\* _cleanup_expired has just emptied the registry and the blacklist: the
\* metrics still name a session that expired and one that was blacklisted
C31_Witness ==
    /\ \E w \in Workers : workers[w].pc = "ensure_count"
    /\ sessions = <<>>
    /\ DOMAIN blacklisted_sessions = {}
    /\ \E sid \in DOMAIN metrics :
          metrics[sid].requests_sent > BlacklistMinRequests
    /\ \E sid \in DOMAIN metrics :
          metrics[sid].requests_sent < BlacklistMinRequests

\* The session object x of the registry as it was before the step: the
\* object of the same id and creation time, or the one the step constructed.
BeforeStep(x) ==
    IF /\ x.session_id \in Keys(sessions)
       /\ Lookup(sessions, x.session_id).created_at = x.created_at
    THEN Lookup(sessions, x.session_id)
    ELSE ProxySession(x.session_id, x.created_at)

\* C32: a get_proxy call that returns a session increments that session's
\* requests_count by exactly 1, sets its last_used to now, reports
\* proxy_requests_count equal to the count after the increment and leaves
\* the requests_count of every other session as it was; no step decreases
\* the requests_count of a session.
C32_UseCountsOnce ==
    [][/\ Selecting =>
            LET s == Lookup(sessions', request'.proxy_session_id)
            IN  /\ request'.proxy_session_id \in Keys(sessions')
                /\ s.requests_count = BeforeStep(s).requests_count + 1
                /\ s.last_used = now
                /\ request'.proxy_requests_count = s.requests_count
                /\ \A i \in DOMAIN sessions' :
                      sessions'[i].session_id # s.session_id
                         => sessions'[i].requests_count
                              = BeforeStep(sessions'[i]).requests_count
       /\ \A i \in DOMAIN sessions' :
             sessions'[i].requests_count
                >= BeforeStep(sessions'[i]).requests_count]_vars

\* get_proxy has returned a session for the second time while the pool holds
\* another session that was handed out before
C32_Witness ==
    /\ request.hook = "process_request"
    /\ request.attached
    /\ request.proxy_requests_count = 2
    /\ \E i \in DOMAIN sessions :
          /\ sessions[i].session_id # request.proxy_session_id
          /\ sessions[i].requests_count >= 1

\* C33: an outcome recorded for a session_id that has no metrics entry leaves
\* the active map, the blacklist and every metrics entry unchanged and
\* creates no entry; no outcome, late ones for removed sessions included,
\* puts a session into the active map.
C33_UnknownOutcomeDropped ==
    [][(ResponseCall \/ ExceptionCall) =>
         /\ request.proxy_session_id \notin DOMAIN metrics => ManagerUnchanged
         /\ \A i \in DOMAIN sessions' :
               \E j \in DOMAIN sessions : sessions[j] = sessions'[i]]_vars

\* an outcome has come in for a session that was blacklisted and removed
\* before, after one for an id that has no metrics entry was dropped
C33_Witness ==
    /\ request.hook \in {"process_response", "process_exception"}
    /\ request.st = "done"
    /\ request.brightdata_enabled
    /\ request.proxy_session_id \in DOMAIN metrics \ Keys(sessions)
    /\ metrics[request.proxy_session_id].requests_sent > BlacklistMinRequests + 1
    /\ SessionIds \ DOMAIN metrics # {}

\* C34: for a fixed session_id, get_profile_for_session and
\* get_session_headers return the same profile and the same header set on
\* every call (with the same base headers), also on a call made after
\* cleanup_expired_sessions dropped the cached profile of the id and it is
\* derived again.
C34_ProfileDeterministic ==
    [][\A call \in DOMAIN returned.results :
         /\ call \in DOMAIN returned'.results
         /\ returned'.results[call] = returned.results[call]]_vars

\* get_session_headers was called again for an id, with base headers and
\* without, after cleanup_expired_sessions had dropped the profile of the
\* id, and get_profile_for_session was called for it
C34_Witness ==
    \E sid \in returned.rederived :
       /\ <<"get_profile_for_session", sid, 1>> \in DOMAIN returned.results
       /\ \A b \in DOMAIN BaseHeaders :
             <<"get_session_headers", sid, b>> \in DOMAIN returned.results

\* C35: every process_response or process_exception call for a request that
\* process_request proxied with session s increases requests_sent of s by
\* exactly 1 and changes the metrics of no other session: s has a metrics
\* entry when its outcome arrives, no outcome of an attached session is
\* dropped.
C35_OutcomeCountedOnce ==
    [][((ResponseCall \/ ExceptionCall) /\ request.attached) =>
         LET s == request.proxy_session_id
         IN  /\ s \in DOMAIN metrics
             /\ s \in DOMAIN metrics'
             /\ metrics'[s].requests_sent = metrics[s].requests_sent + 1
             /\ DOMAIN metrics' = DOMAIN metrics
             /\ \A sid \in DOMAIN metrics \ {s} :
                   metrics'[sid] = metrics[sid]]_vars

\* the outcome of an attached session has been recorded while the metrics
\* hold the counted outcome of another session
C35_Witness ==
    /\ request.hook \in {"process_response", "process_exception"}
    /\ request.attached
    /\ request.proxy_session_id \in DOMAIN metrics
    /\ metrics[request.proxy_session_id].requests_sent = 1
    /\ \E sid \in DOMAIN metrics \ {request.proxy_session_id} :
          metrics[sid].requests_sent = 1

\* C36: in every reachable state every metrics entry has requests_sent =
\* successful_requests + failed_requests and blocked_requests +
\* timeout_requests <= failed_requests, and get_stats reports total_requests
\* = successful_requests + failed_requests.
C36_CountersAddUp ==
    /\ \A sid \in DOMAIN metrics :
          /\ metrics[sid].requests_sent
               = metrics[sid].successful_requests + metrics[sid].failed_requests
          /\ metrics[sid].blocked_requests + metrics[sid].timeout_requests
               <= metrics[sid].failed_requests
    /\ LET stats == get_stats(Manager, now)
       IN  stats.total_requests
             = stats.successful_requests + stats.failed_requests

\* a session with a success and a blocked or timed-out failure on record
C36_Witness ==
    \E sid \in DOMAIN metrics :
       /\ metrics[sid].successful_requests > 0
       /\ metrics[sid].blocked_requests + metrics[sid].timeout_requests > 0

FailureRecorded(sid) ==
    /\ sid \in DOMAIN metrics
    /\ metrics'[sid].failed_requests = metrics[sid].failed_requests + 1

\* success_rate < 50 and requests_sent > 10, on the updated counters
OverThreshold(sid) ==
    /\ metrics'[sid].successful_requests * 100 < 50 * metrics'[sid].requests_sent
    /\ metrics'[sid].requests_sent > 10

====
